---------------------------- MODULE Spec2Model ----------------------------
(***************************************************************************)
(* A model of the pair n-gram aligner (task1/baselines/fst/align.py) and   *)
(* of the edit-distance evaluator (task1/evaluation/evallib.py,            *)
(* evaluate.py).                                                           *)
(*                                                                         *)
(* The aligner is a pipeline: _lexicon_covering, _alignments, _encode.     *)
(* Finite-state transducers are records                                    *)
(*   [states, start, finals, arcs]   with arcs \subseteq                   *)
(*   {<<src, ilabel, olabel, dst>>}; label 0 is epsilon.                   *)
(* The pynini / OpenFst operations the aligner calls (cross, closure,      *)
(* optimize, EncodeMapper) are modelled by the constructions those         *)
(* libraries perform, on the automata the aligner hands them.              *)
(***************************************************************************)
EXTENDS Integers, Sequences, FiniteSets, TLC

VARIABLES
    phase,            \* position in the program
    error,            \* the exception that ended the run, or NoError
    files,            \* the files that exist in the temporary directory
    corpus,           \* the lines of the TSV file
    input_epsilon,    \* flag of align()
    output_epsilon,   \* flag of align()
    g_far,            \* entries written to g.far, <<key, labels>>
    p_far,            \* entries written to p.far
    g_labels,         \* Set[int] of _lexicon_covering
    p_labels,         \* Set[int] of _lexicon_covering
    g_side,           \* the automaton _label_union returned for G
    p_side,           \* the automaton _label_union returned for P
    covering,         \* the covering grammar
    random_starts,    \* argument of _alignments
    cores,            \* argument of _alignments: the size of the pool
    seed,             \* argument of _alignments: the master seed
    rng,              \* the state of the module-level generator `random`
    starts,           \* the list of RandomStart tuples, [idx, seed]
    trials,           \* per start: where its _random_start call stands
    best_fst,         \* the path min() selected, a file name or NoFile
    best_likelihood,  \* the likelihood min() selected
    afst,             \* the alignments in afst.far, one label-pair path each
    a_pos,            \* the position of a_reader
    encoder,          \* the table of the EncodeMapper
    far,              \* the entries written to far_path
    encoder_file,     \* the table written to encoder_path
    runs,             \* the seed lists derived so far, one record per run
    x,                \* first argument of edit_distance
    y,                \* second argument of edit_distance
    edits             \* what edit_distance returned

lexVars == <<corpus, input_epsilon, output_epsilon, g_far, p_far,
             g_labels, p_labels, g_side, p_side, covering>>

trainVars == <<random_starts, cores, seed, rng, starts, trials,
               best_fst, best_likelihood>>

encVars == <<afst, a_pos, encoder, far, encoder_file>>

editVars == <<x, y, edits>>

vars == <<phase, error, files, lexVars, trainVars, encVars, runs, editVars>>

-----------------------------------------------------------------------------
(* Bounds of the model. *)

MaxLabel == 2

(* Label 0 is epsilon (pynini's convention, used at align.py line 168). *)
Epsilon == 0

Labels == 0 .. MaxLabel

NoError == [kind |-> "none", line |-> 0]

NoFst == [states |-> {}, start |-> {}, finals |-> {}, arcs |-> {}]

(* The files of the temporary directory (align.py lines 103-108, 230-245). *)
(* A file name is <<stem, digits>>; the fixed names have no digits.        *)
GFar == <<"g.far", <<>> >>
PFar == <<"p.far", <<>> >>
CFst == <<"c.fst", <<>> >>
AlignFst == <<"align.fst", <<>> >>
AfstFar == <<"afst.far", <<>> >>
NoFile == <<"", <<>> >>

(* The decimal digits of a natural number, most significant first. *)
RECURSIVE Digits(_)
Digits(n) == IF n < 10 THEN <<n>> ELSE Append(Digits(n \div 10), n % 10)

RECURSIVE ZeroPad(_, _)
ZeroPad(d, w) == IF Len(d) >= w THEN d ELSE ZeroPad(<<0>> \o d, w)

(* The format specification :05d of lines 230 and 243: the digits of the   *)
(* seed, padded on the left with zeros to a width of five.                 *)
Format05d(n) == ZeroPad(Digits(n), 5)

(* One name for the trained model of every trial. *)
TrainedPathShared(s) == <<"t-", <<>> >>

RandomizedPath(s) == <<"c-", Format05d(s)>>
TrainedPath(s) == <<"t-", Format05d(s)>>

-----------------------------------------------------------------------------
(* Finite-state transducers.  An empty automaton has no states and its     *)
(* start is the empty set; otherwise start is a one-element set.           *)

ArcsFrom(f, s) == {a \in f.arcs : a[1] = s}

NumStates(f) == Cardinality(f.states)

(* _narcs: the sum over the states of the number of arcs leaving each. *)
RECURSIVE SumArcs(_, _)
SumArcs(f, S) ==
    IF S = {} THEN 0
    ELSE LET s == CHOOSE t \in S : TRUE
         IN  Cardinality(ArcsFrom(f, s)) + SumArcs(f, S \ {s})

Narcs(f) == SumArcs(f, f.states)

(* The label set with the epsilon flag ignored. *)
LabelsIgnoringEpsilon(labels, epsilon) == labels

(* _label_union: two states, src = 0 and dst = 1, one arc per label of     *)
(* the set, label 0 added to the set when epsilon is allowed.              *)
LabelsWithEpsilon(labels, epsilon) ==
    IF epsilon THEN labels \cup {Epsilon} ELSE labels

LabelUnion(labels, epsilon) ==
    [states |-> {0, 1},
     start  |-> {0},
     finals |-> {1},
     arcs   |-> {<<0, l, l, 1>> : l \in LabelsWithEpsilon(labels, epsilon)}]

(* --- trimming (OpenFst Connect) --- *)
RECURSIVE Forward(_, _)
Forward(f, S) ==
    LET T == S \cup {a[4] : a \in {b \in f.arcs : b[1] \in S}}
    IN  IF T = S THEN S ELSE Forward(f, T)

RECURSIVE Backward(_, _)
Backward(f, S) ==
    LET T == S \cup {a[1] : a \in {b \in f.arcs : b[4] \in S}}
    IN  IF T = S THEN S ELSE Backward(f, T)

Connect(f) ==
    LET keep == Forward(f, f.start) \cap Backward(f, f.finals)
    IN  [states |-> keep,
         start  |-> f.start \cap keep,
         finals |-> f.finals \cap keep,
         arcs   |-> {a \in f.arcs : a[1] \in keep /\ a[4] \in keep}]

(* --- epsilon removal (OpenFst RmEpsilon): arcs labelled 0:0 go --- *)
IsEps(a) == a[2] = Epsilon /\ a[3] = Epsilon

RECURSIVE EpsClosure(_, _)
EpsClosure(f, S) ==
    LET T == S \cup {a[4] : a \in {b \in f.arcs : b[1] \in S /\ IsEps(b)}}
    IN  IF T = S THEN S ELSE EpsClosure(f, T)

RmEpsilon(f) ==
    Connect(
      [states |-> f.states,
       start  |-> f.start,
       finals |-> {s \in f.states : EpsClosure(f, {s}) \cap f.finals # {}},
       arcs   |-> UNION {{<<s, a[2], a[3], a[4]>> :
                            a \in {b \in f.arcs :
                                     b[1] \in EpsClosure(f, {s}) /\ ~IsEps(b)}}
                         : s \in f.states}])

(* --- the arc mappers of pynini's cross --- *)
OutputEpsilon(f) ==
    [f EXCEPT !.arcs = {<<a[1], a[2], Epsilon, a[4]>> : a \in f.arcs}]

InputEpsilon(f) ==
    [f EXCEPT !.arcs = {<<a[1], Epsilon, a[3], a[4]>> : a \in f.arcs}]

(* --- composition with OpenFst's match filter --- *)
(* Filter states: 0, 1 (after an epsilon of the first alone), 2 (after an  *)
(* epsilon of the second alone); -1 is "no state", the move is blocked.    *)
NoEps1(f1, s1) == \A a \in ArcsFrom(f1, s1) : a[3] # Epsilon
AllEps1(f1, s1) ==
    (\A a \in ArcsFrom(f1, s1) : a[3] = Epsilon) /\ s1 \notin f1.finals
NoEps2(f2, s2) == \A a \in ArcsFrom(f2, s2) : a[2] # Epsilon
AllEps2(f2, s2) ==
    (\A a \in ArcsFrom(f2, s2) : a[2] = Epsilon) /\ s2 \notin f2.finals

FilterEps1(f2, s2, fs) ==
    IF fs = 0
    THEN IF NoEps2(f2, s2) THEN 0 ELSE IF AllEps2(f2, s2) THEN -1 ELSE 1
    ELSE IF fs = 1 THEN 1 ELSE -1

FilterEps2(f1, s1, fs) ==
    IF fs = 0
    THEN IF NoEps1(f1, s1) THEN 0 ELSE IF AllEps1(f1, s1) THEN -1 ELSE 2
    ELSE IF fs = 2 THEN 2 ELSE -1

ComposeArcs(f1, f2, q) ==
    LET s1 == q[1]
        s2 == q[2]
        fs == q[3]
    IN  \* a label of the first matched by the same label of the second
        {<<q, a[2], b[3], <<a[4], b[4], 0>>>> :
            <<a, b>> \in {ab \in ArcsFrom(f1, s1) \X ArcsFrom(f2, s2) :
                            ab[1][3] # Epsilon /\ ab[1][3] = ab[2][2]}}
        \cup
        \* an epsilon on both sides, taken together
        {<<q, a[2], b[3], <<a[4], b[4], 0>>>> :
            <<a, b>> \in {ab \in ArcsFrom(f1, s1) \X ArcsFrom(f2, s2) :
                            ab[1][3] = Epsilon /\ ab[2][2] = Epsilon
                            /\ fs = 0}}
        \cup
        \* an output epsilon of the first alone
        {<<q, a[2], Epsilon, <<a[4], s2, FilterEps1(f2, s2, fs)>>>> :
            a \in {c \in ArcsFrom(f1, s1) :
                     c[3] = Epsilon /\ FilterEps1(f2, s2, fs) # -1}}
        \cup
        \* an input epsilon of the second alone
        {<<q, Epsilon, b[3], <<s1, b[4], FilterEps2(f1, s1, fs)>>>> :
            b \in {c \in ArcsFrom(f2, s2) :
                     c[2] = Epsilon /\ FilterEps2(f1, s1, fs) # -1}}

RECURSIVE ComposeReach(_, _, _)
ComposeReach(f1, f2, Q) ==
    LET T == Q \cup {a[4] : a \in UNION {ComposeArcs(f1, f2, q) : q \in Q}}
    IN  IF T = Q THEN Q ELSE ComposeReach(f1, f2, T)

Compose(f1, f2) ==
    IF f1.start = {} \/ f2.start = {} THEN NoFst
    ELSE
    LET q0 == <<CHOOSE s \in f1.start : TRUE, CHOOSE s \in f2.start : TRUE, 0>>
        Q  == ComposeReach(f1, f2, {q0})
    IN  Connect(
          [states |-> Q,
           start  |-> {q0},
           finals |-> {q \in Q : q[1] \in f1.finals /\ q[2] \in f2.finals},
           arcs   |-> UNION {ComposeArcs(f1, f2, q) : q \in Q}])

(* pynini.cross(f1, f2): the output labels of the first and the input      *)
(* labels of the second are made epsilon, epsilons are removed, and the    *)
(* two are composed with the match filter.                                 *)
Cross(f1, f2) ==
    Compose(RmEpsilon(OutputEpsilon(f1)), RmEpsilon(InputEpsilon(f2)))

(* Fst.closure(): Kleene star.  A new start state, final, with an epsilon  *)
(* arc to the old start; an epsilon arc from every final state to the old  *)
(* start.  The states of a composition are triples; the new one is <<>>.   *)
Closure(f) ==
    LET n == <<>>
    IN  [states |-> f.states \cup {n},
         start  |-> {n},
         finals |-> f.finals \cup {n},
         arcs   |-> f.arcs
                    \cup {<<s, Epsilon, Epsilon, t>> :
                            <<s, t>> \in (f.finals \cup {n}) \X f.start}]

(* --- determinization over the pair labels (the transducer is encoded as  *)
(* an acceptor first), by the subset construction --- *)
PairLabels(f) == {<<a[2], a[3]>> : a \in f.arcs}

Move(f, S, lab) ==
    {a[4] : a \in {b \in f.arcs : b[1] \in S /\ <<b[2], b[3]>> = lab}}

DetArcs(f, S) ==
    {<<S, lab[1], lab[2], Move(f, S, lab)>> :
        lab \in {l \in PairLabels(f) : Move(f, S, l) # {}}}

RECURSIVE DetReach(_, _)
DetReach(f, Q) ==
    LET T == Q \cup {a[4] : a \in UNION {DetArcs(f, S) : S \in Q}}
    IN  IF T = Q THEN Q ELSE DetReach(f, T)

Determinize(f) ==
    IF f.start = {} THEN NoFst
    ELSE
    LET Q == DetReach(f, {f.start})
    IN  [states |-> Q,
         start  |-> {f.start},
         finals |-> {S \in Q : S \cap f.finals # {}},
         arcs   |-> UNION {DetArcs(f, S) : S \in Q}]

(* --- minimization of a deterministic automaton: states that no string    *)
(* tells apart are merged --- *)
Target(f, s, lab) ==
    {a[4] : a \in {b \in ArcsFrom(f, s) : <<b[2], b[3]>> = lab}}

RECURSIVE Distinct(_, _)
Distinct(f, D) ==
    LET E == D \cup
             {st \in f.states \X f.states :
                \E lab \in PairLabels(f) :
                   LET t1 == Target(f, st[1], lab)
                       t2 == Target(f, st[2], lab)
                   IN  \/ (t1 = {}) # (t2 = {})
                       \/ (t1 \X t2) \cap D # {}}
    IN  IF E = D THEN D ELSE Distinct(f, E)

Minimize(f) ==
    LET g  == Connect(f)
        D0 == {st \in g.states \X g.states :
                 (st[1] \in g.finals) # (st[2] \in g.finals)}
        D  == Distinct(g, D0)
        Block(s) == {t \in g.states : <<s, t>> \notin D}
    IN  [states |-> {Block(s) : s \in g.states},
         start  |-> {Block(s) : s \in g.start},
         finals |-> {Block(s) : s \in g.finals},
         arcs   |-> {<<Block(a[1]), a[2], a[3], Block(a[4])>> : a \in g.arcs}]

(* Fst.optimize() on a transducer over an idempotent semiring: epsilon     *)
(* removal, then determinization and minimization of the encoded machine.  *)
Optimize(f) == Minimize(Determinize(RmEpsilon(f)))

(* The covering grammar without the call of optimize(). *)
CoveringUnoptimized(gs, ps) == Closure(Cross(gs, ps))

(* The covering grammar with the two sides exchanged. *)
CoveringSwapped(gs, ps) == Optimize(Closure(Cross(ps, gs)))

(* The covering grammar, (G x P)^*. *)
Covering(gs, ps) == Optimize(Closure(Cross(gs, ps)))

-----------------------------------------------------------------------------
(* _lexicon_covering, first half (align.py lines 193-210): the two         *)
(* writers are created, then the file is read line by line.  A line is a   *)
(* sequence of characters; with a byte or utf8 token type every character  *)
(* of a field is one label.  The key of line n is n (the code renders it   *)
(* as eight hexadecimal digits, which keeps the order).                    *)

Tab == 9

IsSpace(c) == c = Tab

(* str.rstrip(): trailing whitespace goes, a trailing tab included. *)
RECURSIVE Rstrip(_)
Rstrip(line) ==
    IF line # <<>> /\ IsSpace(line[Len(line)])
    THEN Rstrip(SubSeq(line, 1, Len(line) - 1))
    ELSE line

TabPositions(line) == {i \in 1 .. Len(line) : line[i] = Tab}

FirstTab(line) ==
    CHOOSE i \in TabPositions(line) : \A j \in TabPositions(line) : i <= j

(* line.rstrip().split("\t", 1): one field when there is no tab left,      *)
(* else the text before the first tab and the text after it.               *)
SplitLine(line) ==
    LET l == Rstrip(line)
    IN  IF TabPositions(l) = {} THEN <<l>>
        ELSE <<SubSeq(l, 1, FirstTab(l) - 1),
               SubSeq(l, FirstTab(l) + 1, Len(l))>>

FieldLabels(field) == {field[i] : i \in 1 .. Len(field)}

(* The loop of lines 199-209 from line n on.  st is                        *)
(* [g_far, p_far, g_labels, p_labels, failed]; unpacking a one-field       *)
(* split into (g, p) raises ValueError and ends the loop where it stands.  *)
RECURSIVE ReadLines(_, _, _)
ReadLines(lines, n, st) ==
    IF n > Len(lines) THEN st
    ELSE LET fields == SplitLine(lines[n])
         IN  IF Len(fields) # 2
             THEN [st EXCEPT !.failed = TRUE]
             ELSE ReadLines(lines, n + 1,
                    [g_far    |-> Append(st.g_far, <<n, fields[1]>>),
                     p_far    |-> Append(st.p_far, <<n, fields[2]>>),
                     g_labels |-> st.g_labels \cup FieldLabels(fields[1]),
                     p_labels |-> st.p_labels \cup FieldLabels(fields[2]),
                     failed   |-> FALSE])

ReadCorpus ==
    /\ phase = "start"
    /\ LET st == ReadLines(corpus, 1,
                   [g_far |-> <<>>, p_far |-> <<>>, g_labels |-> {},
                    p_labels |-> {}, failed |-> FALSE])
       IN  /\ files' = files \cup {GFar, PFar}
           /\ g_far' = st.g_far
           /\ p_far' = st.p_far
           /\ g_labels' = st.g_labels
           /\ p_labels' = st.p_labels
           /\ IF st.failed
              THEN \* the ValueError of the unpacking names no line
                   /\ phase' = "failed"
                   /\ error' = [kind |-> "ValueError", line |-> 0]
              ELSE IF corpus = <<>>
              THEN \* line 210 reads linenum, which no iteration has bound
                   /\ phase' = "failed"
                   /\ error' = [kind |-> "UnboundLocalError", line |-> 0]
              ELSE /\ phase' = "covering"
                   /\ error' = error
    /\ UNCHANGED <<corpus, input_epsilon, output_epsilon, g_side, p_side,
                   covering>>
    /\ UNCHANGED <<trainVars, encVars, runs, editVars>>

-----------------------------------------------------------------------------
(* _lexicon_covering, second half (align.py lines 211-223): the two label  *)
(* unions, the covering grammar, the assertion, the write of c.fst.        *)
(* _label_union adds 0 to the caller's set in place (labels.add(0)).       *)

BuildCovering ==
    /\ phase = "covering"
    /\ LET gs  == LabelUnion(g_labels, input_epsilon)
           ps  == LabelUnion(p_labels, output_epsilon)
           cov == Covering(gs, ps)
       IN  /\ g_labels' = LabelsWithEpsilon(g_labels, input_epsilon)
           /\ p_labels' = LabelsWithEpsilon(p_labels, output_epsilon)
           /\ g_side' = gs
           /\ p_side' = ps
           /\ covering' = cov
           /\ IF NumStates(cov) = 1
              THEN /\ phase' = "train"
                   /\ files' = files \cup {CFst}
                   /\ error' = error
              ELSE /\ phase' = "failed"
                   /\ files' = files
                   /\ error' = [kind |-> "AssertionError", line |-> 0]
    /\ UNCHANGED <<corpus, input_epsilon, output_epsilon, g_far, p_far>>
    /\ UNCHANGED <<trainVars, encVars, runs, editVars>>


-----------------------------------------------------------------------------
(* _alignments (align.py lines 270-339).                                   *)

MaxStarts == 2

MaxCores == 2

MaxSeed == 2

MaxLik == 1

RAND_MAX == 32767

(* Negative log-likelihoods, as the float parsed from the trainer's last   *)
(* "INFO: Iteration n: v" line; INF (line 242) when it printed no line.    *)
(* The pattern of line 259 matches digits only, so no NaN is ever parsed.  *)
INF == MaxLik + 1

Likelihoods == 0 .. INF

(* The generator behind the module `random`.  Python's is the Mersenne     *)
(* Twister; what the aligner relies on is that seed() fixes the whole      *)
(* state and that every draw is a function of the state.  A linear         *)
(* congruential generator stands for it.                                   *)
RngNext(s) == (s * 75 + 74) % 65537

(* random.seed left out: the generator keeps the state it was in. *)
RandomSeedKept(old, s) == old

(* random.seed(seed), line 300: the new state depends on the seed alone. *)
RandomSeed(old, s) == s % 65537

(* random.sample(range(1, RAND_MAX), k), line 312: k draws without         *)
(* replacement from 1 .. RAND_MAX - 1; a draw already taken is drawn       *)
(* again.  Returns the list and the state the generator is left in.        *)
RECURSIVE SampleLoop(_, _, _)
SampleLoop(s, k, acc) ==
    IF k = 0 THEN [seeds |-> acc, rng |-> s]
    ELSE LET s2 == RngNext(s)
             v  == 1 + (s2 % (RAND_MAX - 1))
         IN  IF \E i \in 1 .. Len(acc) : acc[i] = v
             THEN SampleLoop(s2, k, acc)
             ELSE SampleLoop(s2, k - 1, Append(acc, v))

RandomSample(s, k) == SampleLoop(s, k, <<>>)

(* Lines 300-314: the list of RandomStart tuples, indices from 1. *)
DeriveStarts(old, s, k) ==
    LET r == RandomSample(RandomSeed(old, s), k)
    IN  [starts |-> [i \in 1 .. k |-> [idx |-> i, seed |-> r.seeds[i]]],
         rng    |-> r.rng]

(* A start that pool.map holds and no worker has taken.  Besides where    *)
(* the call stands and what it returned, a trial records the files its     *)
(* commands were given to read and to write, and the position at which     *)
(* its result reached the pool (0: not yet).                               *)
Queued == [pc |-> "queued", path |-> NoFile, likelihood |-> INF,
           aborted |-> FALSE, exc |-> "none",
           reads |-> {}, writes |-> {}, order |-> 0]

StartTraining ==
    /\ phase = "train"
    /\ LET d == DeriveStarts(rng, seed, random_starts)
       IN  /\ starts' = d.starts
           /\ rng' = d.rng
           /\ trials' = [i \in 1 .. random_starts |-> Queued]
    /\ phase' = "pool"
    /\ UNCHANGED <<error, files, lexVars, random_starts, cores, seed,
                   best_fst, best_likelihood, encVars, runs, editVars>>

Running == {i \in DOMAIN trials : trials[i].pc = "train"}

(* The starts whose _random_start call has ended, by return or by raise. *)
Reported == {i \in DOMAIN trials : trials[i].pc \in {"returned", "raised"}}

(* A map that hands over as soon as one start has ended. *)
AnyReported == Reported # {} \/ DOMAIN trials = {}

(* pool.map, line 320: the result is ready once every start has ended. *)
AllReported == Reported = DOMAIN trials

(* Lines 235-239: baumwelchrandomize reads c.fst and writes c-<seed>.fst. *)
RandomizeReads(s) == {CFst}

RandomizeWrites(s) == {RandomizedPath(s)}

(* Lines 246-253: baumwelchtrain reads the two archives and the            *)
(* randomized model and writes t-<seed>.fst.                               *)
TrainReads(s) == {GFar, PFar, RandomizedPath(s)}

TrainWrites(s) == {TrainedPath(s)}

(* _random_start, lines 228-240: a worker takes the next start of the      *)
(* list (chunksize = 1) and runs baumwelchrandomize under check_call: a    *)
(* non-zero exit raises CalledProcessError.                                *)
Randomize(i) ==
    /\ phase = "pool"
    /\ trials[i].pc = "queued"
    /\ \A j \in 1 .. i - 1 : trials[j].pc # "queued"
    /\ Cardinality(Running) < cores
    /\ \E ok \in BOOLEAN :
         IF ok
         THEN /\ files' = files \cup RandomizeWrites(starts[i].seed)
              /\ trials' = [trials EXCEPT
                              ![i].pc = "train",
                              ![i].reads = RandomizeReads(starts[i].seed),
                              ![i].writes = RandomizeWrites(starts[i].seed)]
         ELSE /\ files' = files
              /\ trials' = [trials EXCEPT
                              ![i].pc = "raised",
                              ![i].aborted = TRUE,
                              ![i].exc = "CalledProcessError",
                              ![i].reads = RandomizeReads(starts[i].seed),
                              ![i].writes = RandomizeWrites(starts[i].seed),
                              ![i].order = Cardinality(Reported) + 1]
    /\ UNCHANGED <<phase, error, lexVars, random_starts, cores, seed, rng,
                   starts, best_fst, best_likelihood, encVars, runs,
                   editVars>>

(* What _random_start does with a finished baumwelchtrain (lines 242-268). *)
(* The trainer runs under Popen; its standard error is read to the end,    *)
(* every line must match the iteration pattern, and the exit status is     *)
(* not looked at.  outcome is how the trainer ended:                       *)
(*   "exit0"    it ended normally and wrote the model;                     *)
(*   "fatal"    it aborted and said so on standard error: the line does    *)
(*              not match and the assertion of line 260 raises;            *)
(*   "killed"   it aborted without a word (a signal, a non-zero exit).     *)
TrainResult(t, s, outcome, lik) ==
    LET u == [t EXCEPT !.reads = @ \cup TrainReads(s),
                       !.writes = @ \cup TrainWrites(s),
                       !.order = Cardinality(Reported) + 1]
    IN  IF outcome = "fatal"
        THEN [u EXCEPT !.pc = "raised", !.aborted = TRUE,
                       !.exc = "AssertionError"]
        ELSE [u EXCEPT !.pc = "returned", !.path = TrainedPath(s),
                       !.likelihood = lik, !.aborted = (outcome = "killed")]

Train(i) ==
    /\ phase = "pool"
    /\ trials[i].pc = "train"
    /\ \E outcome \in {"exit0", "fatal", "killed"}, lik \in Likelihoods,
          wrote \in BOOLEAN :
         /\ outcome = "exit0" => wrote
         /\ outcome = "fatal" => ~wrote /\ lik = INF
         /\ trials' = [trials EXCEPT
                         ![i] = TrainResult(@, starts[i].seed, outcome, lik)]
         /\ files' = IF wrote THEN files \cup TrainWrites(starts[i].seed)
                     ELSE files
    /\ UNCHANGED <<phase, error, lexVars, random_starts, cores, seed, rng,
                   starts, best_fst, best_likelihood, encVars, runs,
                   editVars>>

(* max in place of min: the first result no other result is above. *)
MaxIndex(res) ==
    CHOOSE i \in DOMAIN res :
       /\ \A j \in DOMAIN res : res[i].likelihood >= res[j].likelihood
       /\ \A j \in DOMAIN res :
             res[j].likelihood = res[i].likelihood => i <= j

(* A reduction over the results in the order they reached the pool: of    *)
(* the results no other result is below, the one that reported first.      *)
MinIndexUnordered(res) ==
    CHOOSE i \in DOMAIN res :
       /\ \A j \in DOMAIN res : res[i].likelihood <= res[j].likelihood
       /\ \A j \in DOMAIN res :
             res[j].likelihood = res[i].likelihood =>
                res[i].order <= res[j].order

(* min(gen, key=operator.itemgetter(1)), line 322: the first result, in    *)
(* the order of the list, whose likelihood no other result is below.       *)
MinIndex(res) ==
    CHOOSE i \in DOMAIN res :
       /\ \A j \in DOMAIN res : res[i].likelihood <= res[j].likelihood
       /\ \A j \in DOMAIN res :
             res[j].likelihood = res[i].likelihood => i <= j

Raised == {i \in DOMAIN trials : trials[i].pc = "raised"}

(* Lines 317-325: pool.map returns once every start has finished; it       *)
(* raises the exception of a start that raised.  Otherwise the minimum is  *)
(* taken and its file is moved to align.fst.                               *)
JoinAndReduce ==
    /\ phase = "pool"
    /\ AllReported
    /\ IF Raised # {}
       THEN /\ \E i \in Raised :
                 error' = [kind |-> trials[i].exc, line |-> 0]
            /\ phase' = "failed"
            /\ UNCHANGED <<files, best_fst, best_likelihood>>
       ELSE IF random_starts = 0
       THEN \* min() of an empty list
            /\ error' = [kind |-> "ValueError", line |-> 0]
            /\ phase' = "failed"
            /\ UNCHANGED <<files, best_fst, best_likelihood>>
       ELSE LET b == MinIndex(trials)
            IN  /\ best_fst' = trials[b].path
                /\ best_likelihood' = trials[b].likelihood
                /\ IF trials[b].path \in files
                   THEN /\ files' = (files \ {trials[b].path})
                                      \cup {AlignFst}
                        /\ phase' = "decode"
                        /\ error' = error
                   ELSE \* shutil.move of a file that is not there
                        /\ files' = files
                        /\ phase' = "failed"
                        /\ error' = [kind |-> "FileNotFoundError",
                                     line |-> 0]
    /\ UNCHANGED <<lexVars, random_starts, cores, seed, rng, starts, trials,
                   encVars, runs, editVars>>

(* The alignments of a grapheme string with a phoneme string: the paths    *)
(* of the covering grammar that spell g on the input and p on the output.  *)
RECURSIVE Alignments(_, _, _)
Alignments(g, p, pairs) ==
    IF g = <<>> /\ p = <<>> THEN {<<>>}
    ELSE
      (IF g # <<>> /\ p # <<>> /\ <<g[1], p[1]>> \in pairs
       THEN {<<<<g[1], p[1]>>>> \o a : a \in Alignments(Tail(g), Tail(p), pairs)}
       ELSE {})
      \cup
      (IF g # <<>> /\ <<g[1], Epsilon>> \in pairs
       THEN {<<<<g[1], Epsilon>>>> \o a : a \in Alignments(Tail(g), p, pairs)}
       ELSE {})
      \cup
      (IF p # <<>> /\ <<Epsilon, p[1]>> \in pairs
       THEN {<<<<Epsilon, p[1]>>>> \o a : a \in Alignments(g, Tail(p), pairs)}
       ELSE {})

LineAlignments(k) ==
    Alignments(g_far[k][2], p_far[k][2], PairLabels(covering))

(* Lines 326-339: baumwelchdecode under check_call writes one best path    *)
(* per key to afst.far; which path depends on the trained weights.         *)
Decode ==
    /\ phase = "decode"
    /\ \/ /\ \A k \in 1 .. Len(g_far) : LineAlignments(k) # {}
          /\ afst' \in {a \in [1 .. Len(g_far) ->
                                 UNION {LineAlignments(k) :
                                          k \in 1 .. Len(g_far)}] :
                          \A k \in 1 .. Len(g_far) : a[k] \in LineAlignments(k)}
          /\ files' = files \cup {AfstFar}
          /\ phase' = "encode"
          /\ error' = error
       \/ /\ afst' = afst
          /\ files' = files
          /\ phase' = "failed"
          /\ error' = [kind |-> "CalledProcessError", line |-> 0]
    /\ UNCHANGED <<lexVars, trainVars, a_pos, encoder, far, encoder_file,
                   runs, editVars>>

-----------------------------------------------------------------------------
(* _encode (align.py lines 341-356).  An alignment automaton is a single   *)
(* path, the sequence of the (ilabel, olabel) pairs of its arcs.  The      *)
(* table of the EncodeMapper (encode_labels=True) is the list of the       *)
(* pairs seen, in the order they were first seen; the compact label of a   *)
(* pair is its position in the list.                                       *)

MaxFsts == 2

MaxPath == 2

MaxPairs == 2

InTable(table, pair) == \E i \in 1 .. Len(table) : table[i] = pair

TableEncode(table, pair) ==
    IF InTable(table, pair) THEN table ELSE Append(table, pair)

TableLabel(table, pair) ==
    CHOOSE i \in 1 .. Len(table) : table[i] = pair

TableDecode(table, label) == table[label]

(* fst.encode(encoder), line 353: every arc of the path is replaced by an  *)
(* arc that carries the compact label of its pair, new pairs entering the  *)
(* table on the way.                                                       *)
RECURSIVE EncodeArcs(_, _, _)
EncodeArcs(table, path, out) ==
    IF path = <<>> THEN [table |-> table, labels |-> out]
    ELSE LET t2 == TableEncode(table, Head(path))
         IN  EncodeArcs(t2, Tail(path),
                        Append(out, TableLabel(t2, Head(path))))

(* An encoder created inside the loop: empty for every automaton. *)
FreshEncoder(table) == <<>>

(* The encoder an automaton is encoded with: the one object created at     *)
(* line 344, before the loop, with whatever it holds by then.              *)
EncoderAt(table) == table

EncodeFst(table, path) == EncodeArcs(EncoderAt(table), path, <<>>)

(* One turn of the loop of lines 349-355. *)
EncodeStep ==
    /\ phase = "encode"
    /\ a_pos <= Len(afst)
    /\ LET r == EncodeFst(encoder, afst[a_pos])
       IN  /\ encoder' = r.table
           /\ far' = Append(far, r.labels)
    /\ a_pos' = a_pos + 1
    /\ UNCHANGED <<phase, error, files, lexVars, trainVars, afst,
                   encoder_file, runs, editVars>>

(* The reader is done: encoder.write(encoder_path), line 356. *)
EncodeFinish ==
    /\ phase = "encode"
    /\ a_pos > Len(afst)
    /\ encoder_file' = encoder
    /\ phase' = "done"
    /\ UNCHANGED <<error, files, lexVars, trainVars, afst, a_pos, encoder,
                   far, runs, editVars>>

(* Decoding a written entry with a table. *)
DecodeLabels(table, labels) ==
    [i \in 1 .. Len(labels) |->
        IF labels[i] \in 1 .. Len(table) THEN TableDecode(table, labels[i])
        ELSE <<-1, -1>>]

-----------------------------------------------------------------------------
(* __del__ (align.py lines 110-111): the temporary directory is cleaned    *)
(* up, with every file in it, when the aligner object is deleted, which    *)
(* is after align() has returned or raised.                                *)

(* A __del__ that cleans nothing up. *)
CleanupNothing(fs) == fs

Cleanup(fs) == {}

Del ==
    /\ phase \in {"done", "failed"}
    /\ files' = Cleanup(files)
    /\ phase' = "deleted"
    /\ UNCHANGED <<error, lexVars, trainVars, encVars, runs, editVars>>

-----------------------------------------------------------------------------
(* edit_distance (evallib.py lines 16-34) and _edit_distance (evaluate.py  *)
(* lines 21-39).  The table is numpy.zeros(..., dtype=uint8); its first    *)
(* column and first row, the corner apart, are set to 1.                   *)

MaxLen == 3

MaxSym == 2

Uint8 == 256

Min3(a, b, c) ==
    IF a <= b /\ a <= c THEN a ELSE IF b <= c THEN b ELSE c

RECURSIVE Cell(_, _, _, _)
Cell(a, b, i, j) ==
    IF i = 0 /\ j = 0 THEN 0
    ELSE IF i = 0 \/ j = 0 THEN 1
    ELSE IF a[i] = b[j] THEN Cell(a, b, i - 1, j - 1)
    ELSE (Min3(Cell(a, b, i - 1, j), Cell(a, b, i, j - 1),
               Cell(a, b, i - 1, j - 1)) + 1) % Uint8

edit_distance(a, b) == Cell(a, b, Len(a), Len(b))

RECURSIVE EvalCell(_, _, _, _)
EvalCell(a, b, i, j) ==
    IF i = 0 /\ j = 0 THEN 0
    ELSE IF i = 0 \/ j = 0 THEN 1
    ELSE IF a[i] = b[j] THEN EvalCell(a, b, i - 1, j - 1)
    ELSE (Min3(EvalCell(a, b, i - 1, j), EvalCell(a, b, i, j - 1),
               EvalCell(a, b, i - 1, j - 1)) + 1) % Uint8

evaluate_edit_distance(a, b) == EvalCell(a, b, Len(a), Len(b))

(* score (evallib.py lines 37-46): (edits, len(gold)). *)
Score ==
    /\ phase = "score"
    /\ edits' = <<edit_distance(x, y), Len(x)>>
    /\ phase' = "scored"
    /\ UNCHANGED <<error, files, lexVars, trainVars, encVars, runs, x, y>>

(* _score (evaluate.py lines 42-51). *)
EvaluateScore ==
    /\ phase = "score"
    /\ edits' = <<evaluate_edit_distance(x, y), Len(x)>>
    /\ phase' = "scored_evaluate"
    /\ UNCHANGED <<error, files, lexVars, trainVars, encVars, runs, x, y>>

(* The Levenshtein distance: the least number of insertions, deletions     *)
(* and substitutions that turn a into b.                                   *)
RECURSIVE Levenshtein(_, _)
Levenshtein(a, b) ==
    IF a = <<>> THEN Len(b)
    ELSE IF b = <<>> THEN Len(a)
    ELSE Min3(Levenshtein(Tail(a), b) + 1,
              Levenshtein(a, Tail(b)) + 1,
              Levenshtein(Tail(a), Tail(b))
                 + (IF Head(a) = Head(b) THEN 0 ELSE 1))

-----------------------------------------------------------------------------
(* Initial values of the parts of the state a specification leaves alone.  *)

IdleLex ==
    /\ corpus = <<>>
    /\ input_epsilon = FALSE
    /\ output_epsilon = FALSE
    /\ g_far = <<>>
    /\ p_far = <<>>
    /\ g_labels = {}
    /\ p_labels = {}
    /\ g_side = NoFst
    /\ p_side = NoFst
    /\ covering = NoFst

IdleTrain ==
    /\ random_starts = 0
    /\ cores = 1
    /\ seed = 1
    /\ rng = 0
    /\ starts = <<>>
    /\ trials = <<>>
    /\ best_fst = NoFile
    /\ best_likelihood = INF

IdleEncode ==
    /\ afst = <<>>
    /\ a_pos = 1
    /\ encoder = <<>>
    /\ far = <<>>
    /\ encoder_file = <<>>

IdleEdit ==
    /\ x = <<>>
    /\ y = <<>>
    /\ edits = <<>>

-----------------------------------------------------------------------------
(* The whole program: main() builds an aligner, calls align() once, and    *)
(* the aligner is deleted.  The build stage on every small corpus and      *)
(* every pair of flags is SpecLex and SpecCover, the seeds of every        *)
(* master seed are SpecSeeds and the encoding of several alignments is     *)
(* SpecEncode; here the run is on a corpus of one line or on one with a    *)
(* line that has no tab, with one master seed.                             *)

PipelineCorpora ==
    { << <<1, Tab, 2>> >>,
      << <<1, Tab, 2>>, <<1, 2>> >> }

Init ==
    /\ phase = "start"
    /\ error = NoError
    /\ files = {}
    /\ corpus \in PipelineCorpora
    /\ input_epsilon \in BOOLEAN
    /\ output_epsilon \in BOOLEAN
    /\ g_far = <<>>
    /\ p_far = <<>>
    /\ g_labels = {}
    /\ p_labels = {}
    /\ g_side = NoFst
    /\ p_side = NoFst
    /\ covering = NoFst
    /\ random_starts \in 0 .. MaxStarts
    /\ cores \in 1 .. MaxCores
    /\ seed = MaxSeed
    /\ rng = 0
    /\ starts = <<>>
    /\ trials = <<>>
    /\ best_fst = NoFile
    /\ best_likelihood = INF
    /\ IdleEncode
    /\ runs = <<>>
    /\ IdleEdit

Next ==
    \/ ReadCorpus
    \/ BuildCovering
    \/ StartTraining
    \/ \E i \in DOMAIN trials : Randomize(i)
    \/ \E i \in DOMAIN trials : Train(i)
    \/ JoinAndReduce
    \/ Decode
    \/ EncodeStep
    \/ EncodeFinish
    \/ Del

Spec == Init /\ [][Next]_vars

-----------------------------------------------------------------------------
(* _lexicon_covering on any corpus of a few short lines. *)

MaxLines == 2

MaxLineLen == 3

Chars == (1 .. MaxLabel) \cup {Tab}

SeqsUpTo(S, n) == UNION {[1 .. k -> S] : k \in 0 .. n}

InitLex ==
    /\ phase = "start"
    /\ error = NoError
    /\ files = {}
    /\ corpus \in SeqsUpTo(SeqsUpTo(Chars, MaxLineLen), MaxLines)
    /\ input_epsilon \in BOOLEAN
    /\ output_epsilon = FALSE
    /\ g_far = <<>>
    /\ p_far = <<>>
    /\ g_labels = {}
    /\ p_labels = {}
    /\ g_side = NoFst
    /\ p_side = NoFst
    /\ covering = NoFst
    /\ IdleTrain
    /\ IdleEncode
    /\ runs = <<>>
    /\ IdleEdit

NextLex == ReadCorpus \/ BuildCovering

SpecLex == InitLex /\ [][NextLex]_vars

-----------------------------------------------------------------------------
(* The covering grammar on its own: any two non-empty label sets and any   *)
(* two flags.                                                              *)

NonEmptyLabelSets == (SUBSET Labels) \ {{}}

InitCover ==
    /\ phase = "covering"
    /\ error = NoError
    /\ files = {GFar, PFar}
    /\ corpus = <<>>
    /\ input_epsilon \in BOOLEAN
    /\ output_epsilon \in BOOLEAN
    /\ g_far = <<>>
    /\ p_far = <<>>
    /\ g_labels \in NonEmptyLabelSets
    /\ p_labels \in NonEmptyLabelSets
    /\ g_side = NoFst
    /\ p_side = NoFst
    /\ covering = NoFst
    /\ IdleTrain
    /\ IdleEncode
    /\ runs = <<>>
    /\ IdleEdit

NextCover == BuildCovering

SpecCover == InitCover /\ [][NextCover]_vars

-----------------------------------------------------------------------------
(* _encode on any few short alignment paths. *)

PairOf(k) == <<k % 2, (k + 1) \div 2>>

EncPairs == {PairOf(k) : k \in 1 .. MaxPairs}

InitEncode ==
    /\ phase = "encode"
    /\ error = NoError
    /\ files = {GFar, PFar, CFst, AlignFst, AfstFar}
    /\ IdleLex
    /\ IdleTrain
    /\ afst \in SeqsUpTo(SeqsUpTo(EncPairs, MaxPath), MaxFsts)
    /\ a_pos = 1
    /\ encoder = <<>>
    /\ far = <<>>
    /\ encoder_file = <<>>
    /\ runs = <<>>
    /\ IdleEdit

NextEncode == EncodeStep \/ EncodeFinish

SpecEncode == InitEncode /\ [][NextEncode]_vars

-----------------------------------------------------------------------------
(* The derivation of the per-trial seeds, run several times in one         *)
(* process: the generator is in whatever state the run before left it.     *)

MaxRuns == 3

MaxRng == 2

SeedsRun ==
    /\ phase = "seeds"
    /\ Len(runs) < MaxRuns
    /\ \E s \in 1 .. MaxSeed, k \in 0 .. MaxStarts :
         LET d == DeriveStarts(rng, s, k)
         IN  /\ seed' = s
             /\ random_starts' = k
             /\ starts' = d.starts
             /\ rng' = d.rng
             /\ runs' = Append(runs, [seed |-> s, random_starts |-> k,
                                      starts |-> d.starts])
    /\ UNCHANGED <<phase, error, files, lexVars, cores, trials, best_fst,
                   best_likelihood, encVars, editVars>>

InitSeeds ==
    /\ phase = "seeds"
    /\ error = NoError
    /\ files = {}
    /\ IdleLex
    /\ random_starts = 0
    /\ cores = 1
    /\ seed = 1
    /\ rng \in 0 .. MaxRng
    /\ starts = <<>>
    /\ trials = <<>>
    /\ best_fst = NoFile
    /\ best_likelihood = INF
    /\ IdleEncode
    /\ runs = <<>>
    /\ IdleEdit

NextSeeds == SeedsRun

SpecSeeds == InitSeeds /\ [][NextSeeds]_vars

-----------------------------------------------------------------------------
(* The evaluator's edit distance on any two short label sequences. *)

InitEdit ==
    /\ phase = "score"
    /\ error = NoError
    /\ files = {}
    /\ IdleLex
    /\ IdleTrain
    /\ IdleEncode
    /\ runs = <<>>
    /\ x \in SeqsUpTo(1 .. MaxSym, MaxLen)
    /\ y \in SeqsUpTo(1 .. MaxSym, MaxLen)
    /\ edits = <<>>

NextEdit == Score \/ EvaluateScore

SpecEdit == InitEdit /\ [][NextEdit]_vars

-----------------------------------------------------------------------------
(* The claims. *)

(* The reduction of line 322 has run: every start returned. *)
Reduced == best_fst # NoFile

(* C1: once min() has chosen, the chosen likelihood is at most the         *)
(* likelihood every trial of the run returned, and the chosen pair is the  *)
(* (path, likelihood) one of the trials returned.                          *)
C1_BestIsMinimum ==
    Reduced =>
       /\ \A i \in DOMAIN trials : best_likelihood <= trials[i].likelihood
       /\ \E i \in DOMAIN trials :
             /\ trials[i].pc = "returned"
             /\ trials[i].path = best_fst
             /\ trials[i].likelihood = best_likelihood

(* C1, its case: two trials returned, the second with the strictly lower   *)
(* likelihood, and the second was chosen.                                  *)
C1_Witness ==
    /\ Reduced
    /\ random_starts = 2
    /\ trials[2].likelihood < trials[1].likelihood
    /\ best_fst = trials[2].path

(* C2: when the external process of a trial aborted abnormally, the run    *)
(* fails: nothing is chosen as best, nothing is moved to align.fst, and    *)
(* decoding never starts.                                                  *)
C2_AbortFailsRun ==
    (\E i \in DOMAIN trials : trials[i].aborted) =>
       /\ best_fst = NoFile
       /\ AlignFst \notin files
       /\ phase \notin {"decode", "encode", "done"}

(* The lines of a corpus that hold no tab. *)
NoTabLines(c) == {n \in 1 .. Len(c) : TabPositions(c[n]) = {}}

(* C3: when the corpus read by _lexicon_covering has a line with no tab,   *)
(* the run fails with an error that cites the number of that line, and no  *)
(* entry has been written to g.far or p.far.                               *)
C3_NoTabFailsClean ==
    (phase # "start" /\ NoTabLines(corpus) # {}) =>
       /\ phase = "failed"
       /\ error.line \in NoTabLines(corpus)
       /\ g_far = <<>>
       /\ p_far = <<>>

(* C4: at every point of _encode the table is injective, and every         *)
(* automaton encoded so far, mapped back through the table as it now       *)
(* stands, is the original sequence of pairs (so the label of a pair       *)
(* never changes); the table written at the end is that table.             *)
C4_EncoderRoundTrip ==
    /\ \A i, j \in 1 .. Len(encoder) : encoder[i] = encoder[j] => i = j
    /\ Len(far) = a_pos - 1
    /\ \A k \in 1 .. Len(far) :
          /\ Len(far[k]) = Len(afst[k])
          /\ \A n \in 1 .. Len(far[k]) :
                DecodeLabels(encoder, far[k])[n] = afst[k][n]
    /\ phase = "done" =>
          /\ encoder_file = encoder
          /\ Len(far) = Len(afst)

(* C4, its case: two automata were encoded, the second repeats a pair of   *)
(* the first and brings a new one.                                         *)
C4_Witness ==
    /\ phase = "done"
    /\ Len(afst) = 2
    /\ Len(encoder) = 2
    /\ Len(afst[1]) = 1
    /\ Len(afst[2]) = 2
    /\ afst[2][2] = afst[1][1]
    /\ afst[2][1] # afst[1][1]

(* C5: two derivations with the same master seed and the same count give   *)
(* the same list of (index, seed) pairs, whatever state the generator was  *)
(* in before each.                                                         *)
C5_SeedsDeterministic ==
    \A a, b \in 1 .. Len(runs) :
       (runs[a].seed = runs[b].seed
          /\ runs[a].random_starts = runs[b].random_starts)
       => runs[a].starts = runs[b].starts

(* C5, its case: the same seed and count derived twice, two trials each. *)
C5_Witness ==
    /\ Len(runs) = 2
    /\ runs[1].seed = runs[2].seed
    /\ runs[1].random_starts = 2
    /\ runs[2].random_starts = 2
    /\ Len(runs[2].starts) = 2
    /\ runs[2].starts[1].seed # runs[2].starts[2].seed

(* C6: the assertion of line 218 never fails: the covering grammar built   *)
(* from two non-empty label sets has exactly one state.                    *)
C6_OneState ==
    /\ error.kind # "AssertionError"
    /\ phase = "train" => NumStates(covering) = 1

(* C6, its case: a covering grammar was built with epsilon allowed on      *)
(* both sides from label sets of two labels each.                          *)
C6_Witness ==
    /\ phase = "train"
    /\ input_epsilon
    /\ output_epsilon
    /\ Cardinality(g_labels) = 3
    /\ Cardinality(p_labels) = 3
    /\ NumStates(covering) = 1

(* After _label_union, g_labels and p_labels hold label 0 iff their side   *)
(* allows epsilon or had it already: they are the sets the claim names.    *)
FullProduct == g_labels \X p_labels

(* C7 as claimed: with disjoint alphabets and epsilon allowed on neither   *)
(* side the arc count is |G| x |P|, and in general the arcs are the full   *)
(* cartesian product of the two label sets with their epsilons.            *)
C7_FullProduct ==
    phase = "train" =>
       /\ (~input_epsilon /\ ~output_epsilon /\ g_labels \cap p_labels = {})
             => Narcs(covering) = Cardinality(g_labels) * Cardinality(p_labels)
       /\ PairLabels(covering) = FullProduct

(* C7 as amended: the arcs are the cartesian product less the pair         *)
(* (epsilon, epsilon), every arc is a loop on the one state, and the arc   *)
(* count is the size of that set.                                          *)
C7_ProductLessEpsEps ==
    phase = "train" =>
       /\ (~input_epsilon /\ ~output_epsilon /\ g_labels \cap p_labels = {})
             => Narcs(covering) = Cardinality(g_labels) * Cardinality(p_labels)
       /\ PairLabels(covering) = FullProduct \ {<<Epsilon, Epsilon>>}
       /\ Narcs(covering) = Cardinality(FullProduct \ {<<Epsilon, Epsilon>>})
       /\ \A a \in covering.arcs : a[1] = a[4]

(* C7, its case: epsilon allowed on both sides, two labels a side. *)
C7_Witness ==
    /\ phase = "train"
    /\ input_epsilon
    /\ output_epsilon
    /\ g_labels = {0, 1, 2}
    /\ p_labels = {0, 1, 2}
    /\ Narcs(covering) = 8

(* The automaton has two states and one arc per label, from the start      *)
(* state to the one final state.                                           *)
IsLabelUnionOf(f, labels) ==
    /\ NumStates(f) = 2
    /\ Cardinality(f.finals) = 1
    /\ f.start \cap f.finals = {}
    /\ Cardinality(f.arcs) = Cardinality(labels)
    /\ {a[2] : a \in f.arcs} = labels
    /\ \A a \in f.arcs :
          a[2] = a[3] /\ {a[1]} = f.start /\ {a[4]} = f.finals

OneMoreArc(labels) ==
    /\ LabelUnion(labels, TRUE).arcs
          = LabelUnion(labels, FALSE).arcs \cup {<<0, Epsilon, Epsilon, 1>>}
    /\ Cardinality(LabelUnion(labels, TRUE).arcs)
          = Cardinality(LabelUnion(labels, FALSE).arcs) + 1

(* C8 as claimed: for the label set of either side, epsilon=True gives     *)
(* exactly one arc more, the arc of label 0, than epsilon=False; and the   *)
(* automata _label_union returned have the shape of a label union.         *)
C8_OneMoreArc ==
    /\ phase = "covering" => OneMoreArc(g_labels) /\ OneMoreArc(p_labels)
    /\ phase = "train" =>
          IsLabelUnionOf(g_side, g_labels) /\ IsLabelUnionOf(p_side, p_labels)

(* C8 as amended: one arc more when the set does not hold label 0 yet,     *)
(* the same automaton when it does.                                        *)
C8_OneMoreArcUnlessZero ==
    /\ phase = "covering" =>
          \A L \in {g_labels, p_labels} :
             /\ Epsilon \notin L => OneMoreArc(L)
             /\ Epsilon \in L => LabelUnion(L, TRUE) = LabelUnion(L, FALSE)
    /\ phase = "train" =>
          /\ IsLabelUnionOf(g_side, g_labels)
          /\ IsLabelUnionOf(p_side, p_labels)
          /\ input_epsilon => Epsilon \in {a[2] : a \in g_side.arcs}
          /\ output_epsilon => Epsilon \in {a[2] : a \in p_side.arcs}

(* C8, its case: epsilon was allowed for a set of two labels without 0,    *)
(* and the automaton returned has three arcs.                              *)
C8_Witness ==
    /\ phase = "train"
    /\ input_epsilon
    /\ ~output_epsilon
    /\ g_labels = {0, 1, 2}
    /\ Cardinality(g_side.arcs) = 3
    /\ Epsilon \notin p_labels
    /\ Cardinality(p_side.arcs) = Cardinality(p_labels)

(* The trial artifacts: the randomized and the trained models. *)
TrialArtifacts ==
    {RandomizedPath(starts[i].seed) : i \in DOMAIN starts}
       \cup {TrainedPath(starts[i].seed) : i \in DOMAIN starts}

(* pool.map has returned or raised. *)
ReductionOver ==
    \/ phase \in {"decode", "encode", "done"}
    \/ phase \in {"failed", "deleted"} /\ starts # <<>>

(* C9 as claimed: once the reduction is over, no trial artifact is left    *)
(* in the temporary directory (the winner is align.fst by then).           *)
C9_ReclaimedAfterReduction ==
    ReductionOver => files \cap TrialArtifacts = {}

(* C9 as amended: once the aligner object is deleted, nothing is left in   *)
(* the temporary directory, whichever way align() ended.                   *)
C9_ReclaimedAtDeletion ==
    phase = "deleted" => files = {}

(* C9, its case: a run of two trials that both wrote their models ended    *)
(* in an error, and the aligner was deleted.                               *)
C9_Witness ==
    /\ phase = "deleted"
    /\ error # NoError
    /\ random_starts = 2
    /\ \A i \in DOMAIN trials : trials[i].pc = "returned"

(* C10: edit_distance and _edit_distance return the Levenshtein distance   *)
(* of their arguments.                                                     *)
C10_IsLevenshtein ==
    phase \in {"scored", "scored_evaluate"} => edits[1] = Levenshtein(x, y)


(* The trials whose likelihood no trial of the run is below. *)
Minimal ==
    {i \in DOMAIN trials :
        \A j \in DOMAIN trials : trials[i].likelihood <= trials[j].likelihood}

(* The smallest trial index among the minimal ones (idx of start i is i). *)
FirstMinimal ==
    CHOOSE i \in Minimal : \A j \in Minimal : starts[i].idx <= starts[j].idx

(* C11: when the reduction has run and two or more trials returned the     *)
(* minimal likelihood, the model chosen is the one of the minimal trial    *)
(* with the smallest index, in whatever order the results reached the      *)
(* pool.                                                                   *)
C11_TieToSmallestIndex ==
    (Reduced /\ Cardinality(Minimal) >= 2) =>
       /\ best_fst = TrainedPath(starts[FirstMinimal].seed)
       /\ \A j \in Minimal \ {FirstMinimal} :
             best_fst # TrainedPath(starts[j].seed)

(* C11, its case: two trials tied on the minimum, the one with the larger  *)
(* index reported first, and the one with the smaller index was chosen.    *)
C11_Witness ==
    /\ Reduced
    /\ Cardinality(Minimal) >= 2
    /\ \E j \in Minimal : /\ starts[j].idx > starts[FirstMinimal].idx
                           /\ trials[j].order < trials[FirstMinimal].order
    /\ best_fst = TrainedPath(starts[FirstMinimal].seed)
    /\ AlignFst \in files


(* The starts of the run have been derived and handed to the pool. *)
PoolStarted == phase \notin {"start", "covering", "train"} /\ trials # <<>>

(* C12: the trials of a run have pairwise distinct seeds in                *)
(* 1 .. RAND_MAX - 1, hence pairwise distinct randomized-model and         *)
(* trained-model paths; at every point of every interleaving no trial has  *)
(* written a file another trial writes or reads, and no trial has written  *)
(* the covering grammar or either archive.                                 *)
C12_TrialsOwnTheirFiles ==
    PoolStarted =>
       /\ \A i \in DOMAIN starts : starts[i].seed \in 1 .. RAND_MAX - 1
       /\ \A i, j \in DOMAIN starts :
             i # j =>
                /\ starts[i].seed # starts[j].seed
                /\ RandomizedPath(starts[i].seed)
                      # RandomizedPath(starts[j].seed)
                /\ TrainedPath(starts[i].seed) # TrainedPath(starts[j].seed)
                /\ trials[i].writes
                      \cap (trials[j].writes \cup trials[j].reads) = {}
       /\ \A i \in DOMAIN trials :
             trials[i].writes \cap {CFst, GFar, PFar} = {}

(* C12, its case: a run of two trials on two workers, both trials trained  *)
(* and wrote both their files, the second reporting before the first.      *)
C12_Witness ==
    /\ PoolStarted
    /\ random_starts = 2
    /\ cores = 2
    /\ \A i \in DOMAIN trials :
          /\ trials[i].pc = "returned"
          /\ trials[i].writes \subseteq files
          /\ Cardinality(trials[i].writes) = 2
    /\ trials[2].order < trials[1].order


(* The stage a position of the program belongs to: 1 build, 2 train,       *)
(* 3 decode, 4 encode, 5 returned; 6 once align() is over by an error or   *)
(* the aligner is deleted.                                                 *)
Stage(ph) ==
    CASE ph \in {"start", "covering"} -> 1
      [] ph \in {"train", "pool"}     -> 2
      [] ph = "decode"                 -> 3
      [] ph = "encode"                 -> 4
      [] ph = "done"                   -> 5
      [] OTHER                         -> 6

(* A trial has been taken by a worker. *)
TrialStarted == \E i \in DOMAIN trials : trials[i].pc # "queued"

(* _encode has read an alignment or written an entry. *)
EncodingStarted ==
    phase \in {"encode", "done"} \/ a_pos > 1 \/ far # <<>>

(* What holds of every state of a run of align. *)
StagesInOrderState ==
    /\ (TrialStarted /\ phase # "deleted") =>
          {GFar, PFar, CFst} \subseteq files
    /\ (best_fst # NoFile \/ AlignFst \in files) =>
          (AllReported /\ Raised = {})
    /\ (phase = "decode" \/ AfstFar \in files) => AlignFst \in files
    /\ EncodingStarted =>
          /\ error = NoError
          /\ AfstFar \in files \/ phase = "deleted"
          /\ Len(afst) = Len(g_far)
    /\ Running # {} => phase = "pool"
    /\ Cardinality(Running) <= cores

(* What holds of every step of a run of align. *)
StagesInOrderStep ==
    /\ Stage(phase') >= Stage(phase)
    /\ (Stage(phase') # Stage(phase) /\ Stage(phase') <= 5) =>
          Stage(phase') = Stage(phase) + 1
    /\ trials' = trials => Running = {}
    /\ (trials' # trials /\ phase = "pool") =>
          Cardinality({i \in DOMAIN trials : trials'[i] # trials[i]}) = 1

(* C13: in every run of align the stages follow one another in the order   *)
(* build, train, decode, encode.  No trial is started before the archives  *)
(* and the covering grammar are written; the reduction and the move to     *)
(* align.fst come after every trial has reported; decoding comes after     *)
(* the move; encoding comes after a decoding that succeeded; and a step    *)
(* that is not a step of a trial is taken only while no trial is running.  *)
C13_StagesInOrder ==
    [](StagesInOrderState) /\ [][StagesInOrderStep]_vars

(* C13, its case: a run of two trials on two workers, the second           *)
(* reporting before the first, went through every stage and returned.      *)
C13_Witness ==
    /\ phase = "done"
    /\ random_starts = 2
    /\ cores = 2
    /\ trials[2].order < trials[1].order
    /\ {CFst, AlignFst, AfstFar} \subseteq files
    /\ Len(far) = Len(g_far)
    /\ far # <<>>

=============================================================================
